---------------------------- MODULE Spec2Model ----------------------------
(***************************************************************************)
(* Scenario execution engine of the zeekoe test harness                    *)
(* (dev/test-zeekoe.py): TestScenario.run_command_list interpreting a      *)
(* command list against one channel, its balance ledger, the snapshot      *)
(* store (transfer_db_files) and the external channel client it spawns.    *)
(*                                                                         *)
(* Amounts are exact decimals counted in ticks.  One rounding unit of      *)
(* round(x, 4), i.e. 0.0001 XTZ, is Unit = 2 * HalfUnit ticks, so that     *)
(* values between two multiples of 0.0001 (a deposit of 0.00014, a draw of *)
(* 0.00006) exist in the model.  Ledger values are even tick counts, hence *)
(* balance_remaining / 2 is a whole number of ticks.                       *)
(***************************************************************************)
EXTENDS Integers, Sequences, FiniteSets, TLC

\* ------------------------------------------------------------------ bounds
\* half of the number of ticks in 0.0001 XTZ
HalfUnit == 5
\* deposits range over 0, 2, ..., 2 * MaxDeposit ticks
MaxDeposit == 20
\* every command list of at most MaxLen tokens is an input
MaxLen == 2
\* every list of at most MaxPayLen pay and pay_all commands is an input
MaxPayLen == 4
\* every list of establish and at most MaxSnapLen of store, restore, pay,
\* close is an input
MaxSnapLen == 4
\* the chain grows up to MaxOver blocks past the minimum level
MaxOver == 1
\* the user interrupts a run from the keyboard at most MaxInterrupts times
MaxInterrupts == 1
\* a scenario of another label, run at the same time, commits at most
\* MaxOtherOps operations
MaxOtherOps == 1
\* a spawned process writes at most MaxWrites lines
MaxWrites == 3
\* a pipe holds at most MaxPipe lines that have not been read
MaxPipe == 1
\* at most MaxScenarios scenario processes run at the same time
MaxScenarios == 2

Unit == 2 * HalfUnit

\* ------------------------------------------------------ the command line
TESTNET == "testnet"
SANDBOX == "sandbox"

MERCH_SETUP == "merch-setup"
CUST_SETUP == "cust-setup"
SCENARIO == "scenario"
TEST_ALL == "test-all"
LIST == "list"

COMMANDS == {LIST, MERCH_SETUP, CUST_SETUP, SCENARIO, TEST_ALL}

\* the minimum blockchain level to be able to run tests
MIN_BLOCKCHAIN_LEVEL == 60

\* the highest level the chain reaches while the harness waits for it
MaxLevel == MIN_BLOCKCHAIN_LEVEL + MaxOver

\* no level has been read from the chain yet
NoLevel == 0 - 1

\* the status the operating system reports for sys.exit(code)
ExitStatus(code) == code % 256

\* --------------------------------------------------------- command tokens
ESTABLISH == "establish"
PAY == "pay"
PAY_ALL == "pay_all"
MUTUAL_CLOSE == "mutual_close"
CLOSE == "close"
EXPIRE == "expire"
STORE == "store"
RESTORE == "restore"
\* a token that is none of the eight commands
UNKNOWN == "unknown"

Commands == {ESTABLISH, PAY, PAY_ALL, MUTUAL_CLOSE, CLOSE, EXPIRE, STORE, RESTORE}
Tokens == Commands \cup {UNKNOWN}

\* the command lists main() builds for test-all
CloseMethodTests(close_method) ==
    << <<ESTABLISH, close_method>>,
       <<ESTABLISH, PAY, close_method>>,
       <<ESTABLISH, PAY, PAY, close_method>>,
       <<ESTABLISH, PAY_ALL, close_method>> >>

DisputeTests ==
    << <<ESTABLISH, STORE, PAY, RESTORE, CLOSE>>,
       <<ESTABLISH, PAY, STORE, PAY, RESTORE, CLOSE>>,
       <<ESTABLISH, STORE, PAY, PAY, PAY, RESTORE, CLOSE>>,
       <<ESTABLISH, STORE, PAY_ALL, RESTORE, CLOSE>> >>

tests_to_run ==
    CloseMethodTests(MUTUAL_CLOSE) \o CloseMethodTests(CLOSE)
        \o CloseMethodTests(EXPIRE) \o DisputeTests

\* the command lists of the usage notes at the head of the file
LifeCycleExample == <<ESTABLISH, PAY, PAY, PAY_ALL, CLOSE>>
DisputeExample == <<ESTABLISH, PAY, STORE, PAY, RESTORE, CLOSE>>

\* ------------------------------------------------------------ the ledger
\* mutant of Uniform: the draw may be negative
UniformSigned(b) == {d \in (0 - b)..b : d = 0 \/ d < b}

\* random.uniform(0, b): 0 + (b - 0) * random() with random() in [0, 1)
Uniform(b) == {d \in 0..b : d = 0 \/ d < b}

\* mutant of Round4: rounds up to the next multiple
Round4Up(x) == {((x + Unit - 1) \div Unit) * Unit}

\* round(x, 4): the nearest multiple of 0.0001.  A decimal lying exactly
\* between two multiples has no exact binary float; the float next to it
\* lies on either side, so either neighbour can be the result.
Round4(x) ==
    LET q == x \div Unit
        r == x % Unit
    IN  IF 2 * r < Unit THEN {q * Unit}
        ELSE IF 2 * r > Unit THEN {(q + 1) * Unit}
        ELSE {q * Unit, (q + 1) * Unit}

\* mutant of MaxPayAmount: the division by two is missing
MaxPayAmountAll(remaining) == remaining

\* max_pay_amount = self.balance_remaining / 2
MaxPayAmount(remaining) == remaining \div 2

\* pay_amount = round(random.uniform(0, max_pay_amount), 4)
PayAmounts(remaining) ==
    UNION {Round4(d) : d \in Uniform(MaxPayAmount(remaining))}

\* mutant of PayRemaining: the cap is subtracted, not the amount
PayRemainingCap(remaining, pay_amount) == remaining - MaxPayAmount(remaining)

\* self.balance_remaining -= pay_amount
PayRemaining(remaining, pay_amount) == remaining - pay_amount

\* pay_amount of pay_all, and the ledger value it leaves
PayAllAmount(remaining) == remaining

\* mutant of PayAllRemaining: the ledger is not reset
PayAllRemainingKept(remaining) == remaining

PayAllRemaining(remaining) == 0

\* ------------------------------------------------- customer state files
\* glob(db_path + '*'): the primary database file and its companions
DbFiles == {"db", "db-wal", "db-shm"}

\* a directory that holds none of the files (or does not exist)
NoFiles == [f \in {} |-> 0]

\* mutant of transfer_db_files: the destination becomes the source
transfer_db_files_mirror(src, dst) == src

\* transfer_db_files: every file of src that the glob matches is copied
\* into dst under its base name; nothing else in dst is touched
transfer_db_files(src, dst) ==
    [f \in (DOMAIN src) \cup (DOMAIN dst) |->
        IF f \in DOMAIN src THEN src[f] ELSE dst[f]]


\* ------------------------------------------ the external channel client
\* The zkchannel executable keeps the customer's channels in the database
\* the files hold.  A file's content is the database state it was written
\* with: rev counts the committed changes, status and bal are the channel
\* of this scenario's label, others counts the changes committed to the
\* channels of other labels, which the same database holds.
NoChannel == [rev |-> 0, status |-> "none", bal |-> 0, others |-> 0]

\* the state a reader of a file set sees: the write-ahead file, when there
\* is one, holds the latest commits
DbState(files) ==
    IF "db-wal" \in DOMAIN files THEN files["db-wal"] ELSE files["db"]

\* the state a successful operation commits (none: it cannot succeed)
ClientCommit(op, amount, cur) ==
    CASE op = "establish" ->
            IF cur.status = "none"
            THEN {[cur EXCEPT !.rev = @ + 1, !.status = "open",
                              !.bal = amount]}
            ELSE {}
      [] op = "pay" ->
            IF cur.status = "open" /\ amount <= cur.bal
            THEN {[cur EXCEPT !.rev = @ + 1, !.bal = @ - amount]}
            ELSE {}
      [] op \in {"close", "close --force"} ->
            IF cur.status = "open"
            THEN {[cur EXCEPT !.rev = @ + 1, !.status = "closed"]}
            ELSE {}
      [] OTHER -> {}

\* the files a commit of c leaves: checkpointed into the primary file with
\* the companions removed, or appended to the write-ahead file
ClientWrites(files, c) ==
    { [f \in {"db"} |-> c],
      [f \in DbFiles |-> IF f = "db" THEN files["db"] ELSE c] }

\* the state an operation on a channel of another label commits
OtherCommit(cur) == [cur EXCEPT !.rev = @ + 1, !.others = @ + 1]

\* does `list --json` name the scenario's label
Listed(files) == DbState(files).status # "none"

\* ------------------------------------------------------------ the state
VARIABLES
    command_list,       \* the argument of run_command_list
    pos,                \* index of the command the for loop is at
    pc,                 \* "main", "gate", "serve", "batch", "loop", "wait",
                        \* "done", "fatal", "crashed"
    customer_deposit,   \* self.customer_deposit
    balance_remaining,  \* self.balance_remaining
    live,               \* the files config_path/cust_db*
    channel_dir,        \* os.path.isdir(self.channel_path)
    snap,               \* the files channel_path/cust_db*
    process,            \* the spawned process run_command waits for
    dispatched,         \* history: every command dispatch and process
    live_at_store,      \* history: live when the latest store ran
    args,               \* the parsed command line: command, network, channel
    chain,              \* the level of the head block of the chain
    level,              \* level of check_blockchain_maturity
    wait_secs,          \* wait_secs of check_blockchain_maturity: the
                        \* seconds of its latest sleep, 0 before the first
    configs,            \* the configuration files written
    cases_run,          \* history: the test-all cases started, with labels
    exit_status,        \* the exit status, once pc is "done", "fatal", "crashed"
    keyboard,           \* the interrupts the user is still going to send
    other_ops,          \* the operations a scenario of another label, run
                        \* by another process on the same files, has
                        \* committed; NoOther: there is no such scenario
    reader,             \* one call of run_command, read by read: the spawned
                        \* process, its two pipes and the locals of the call
    temp_path,          \* the archive directories temp/<label> of the labels
                        \* of earlier cases of a batch
    racers              \* scenario processes that start and store at the
                        \* same time, step by step, and the directories

\* the state of main around run_command_list
mainVars == <<args, chain, level, wait_secs, configs, cases_run, exit_status,
              keyboard, other_ops, reader, temp_path, racers>>

vars == <<command_list, pos, pc, customer_deposit, balance_remaining, live,
          channel_dir, snap, process, dispatched, live_at_store, args, chain,
          level, wait_secs, configs, cases_run, exit_status, keyboard,
          other_ops, reader, temp_path, racers>>

NoProcess == [op |-> "none", amount |-> 0]

\* the scenario is the only one that runs on the configuration path
NoOther == 0 - 1

\* no call of run_command is looked at read by read
NoRun == [program |-> <<>>, written |-> 0, exited |-> FALSE, status |-> 0,
          stdout |-> <<>>, stderr |-> <<>>, at |-> "none",
          output_text |-> 0, rc |-> 0]

\* no start of scenario processes is looked at step by step
NoRacers == [root |-> FALSE, dirs |-> {}, procs |-> <<>>]

\* the status of a process that process.terminate() ended (SIGTERM)
Terminated == 0 - 15

\* ------------------------------------------------------------ the inputs
RECURSIVE ListsOfLen(_, _)
ListsOfLen(S, n) ==
    IF n = 0 THEN {<<>>}
    ELSE {Append(l, t) : l \in ListsOfLen(S, n - 1), t \in S}

ListsUpTo(S, n) == UNION {ListsOfLen(S, k) : k \in 0..n}

Range(s) == {s[k] : k \in DOMAIN s}

Deposits == {2 * k : k \in 0..MaxDeposit}

\* the customer database cust-setup created, with or without companions
InitialLive ==
    { [f \in {"db"} |-> NoChannel], [f \in DbFiles |-> NoChannel] }

\* the archive directory of the label: absent, or present and empty
InitialArchives == { <<FALSE, NoFiles>>, <<TRUE, NoFiles>> }

InitWith(lists, deposits) ==
    /\ command_list \in lists
    /\ customer_deposit \in deposits
    /\ balance_remaining = customer_deposit
    /\ pos = 1
    /\ pc = "main"
    /\ live \in InitialLive
    /\ \E a \in InitialArchives : channel_dir = a[1] /\ snap = a[2]
    /\ process = NoProcess
    /\ dispatched = <<>>
    /\ live_at_store = NoFiles

\* the command line and the chain main() starts with
InitMain(commands, networks, channels, levels, interrupts, others) ==
    /\ args \in [command : commands, network : networks, channel : channels]
    /\ keyboard \in interrupts
    /\ other_ops \in others
    /\ chain \in levels
    /\ level = NoLevel
    /\ wait_secs = 0
    /\ temp_path = <<>>
    /\ configs = {}
    /\ cases_run = <<>>
    /\ exit_status = 0

\* ------------------------------------------------------- run_command_list
\* the for loop is at a command equal to cmd
At(cmd) ==
    /\ pc = "loop"
    /\ pos <= Len(command_list)
    /\ command_list[pos] = cmd

Entry(op, amount, done) ==
    [pos |-> pos, command |-> command_list[pos], op |-> op,
     amount |-> amount, done |-> done, rc |-> 0]

\* self.channel_name: the label main built from --channel for a scenario,
\* the label of the case in the batch
channel_name ==
    IF cases_run # <<>> THEN cases_run[Len(cases_run)].label
    ELSE args.channel

\* run_command: Popen of the executable with the operation's arguments
Spawn(op, amount) ==
    /\ process' = [op |-> op, amount |-> amount, label |-> channel_name]
    /\ dispatched' = Append(dispatched, Entry(op, amount, FALSE))
    /\ pc' = "wait"

\* the record of the process that ran, once run_command has returned rc
Returned(rc) ==
    [dispatched EXCEPT ![Len(dispatched)] = [@ EXCEPT !.done = TRUE, !.rc = rc]]

\* mutant of NextCommand: the loop steps over a command
NextCommandSkip(p) == p + 2

\* the for loop takes the next command after a command whose branch is over
NextCommand(p) == p + 1

\* mutant of initial_deposit: the channel is funded with what is left
initial_deposit_left == balance_remaining

\* initial_deposit = "{amount} XTZ".format(amount=str(self.customer_deposit))
initial_deposit == customer_deposit

Establish ==
    /\ At(ESTABLISH)
    /\ Spawn("establish", initial_deposit)
    /\ UNCHANGED <<command_list, pos, customer_deposit, balance_remaining,
                   live, channel_dir, snap, live_at_store>>
    /\ UNCHANGED mainVars

\* mutant of Pay: a pay on an empty ledger is skipped
PaySkipsEmpty ==
    /\ At(PAY)
    /\ IF balance_remaining = 0
       THEN /\ pos' = NextCommand(pos)
            /\ UNCHANGED <<balance_remaining, process, dispatched, pc>>
       ELSE /\ \E pay_amount \in PayAmounts(balance_remaining) :
                  /\ balance_remaining' =
                        PayRemaining(balance_remaining, pay_amount)
                  /\ Spawn("pay", pay_amount)
            /\ pos' = pos
    /\ UNCHANGED <<command_list, customer_deposit, live, channel_dir, snap,
                   live_at_store>>
    /\ UNCHANGED mainVars

Pay ==
    /\ At(PAY)
    /\ \E pay_amount \in PayAmounts(balance_remaining) :
          /\ balance_remaining' = PayRemaining(balance_remaining, pay_amount)
          /\ Spawn("pay", pay_amount)
    /\ UNCHANGED <<command_list, pos, customer_deposit, live, channel_dir,
                   snap, live_at_store>>
    /\ UNCHANGED mainVars

PayAll ==
    /\ At(PAY_ALL)
    /\ balance_remaining' = PayAllRemaining(balance_remaining)
    /\ Spawn("pay", PayAllAmount(balance_remaining))
    /\ UNCHANGED <<command_list, pos, customer_deposit, live, channel_dir,
                   snap, live_at_store>>
    /\ UNCHANGED mainVars

\* mutant of Close: the force flag is not passed
CloseWithoutForce ==
    /\ At(CLOSE)
    /\ Spawn("close", 0)
    /\ UNCHANGED <<command_list, pos, customer_deposit, balance_remaining,
                   live, channel_dir, snap, live_at_store>>
    /\ UNCHANGED mainVars

Close ==
    /\ At(CLOSE)
    /\ Spawn("close --force", 0)
    /\ UNCHANGED <<command_list, pos, customer_deposit, balance_remaining,
                   live, channel_dir, snap, live_at_store>>
    /\ UNCHANGED mainVars

MutualClose ==
    /\ At(MUTUAL_CLOSE)
    /\ Spawn("close", 0)
    /\ UNCHANGED <<command_list, pos, customer_deposit, balance_remaining,
                   live, channel_dir, snap, live_at_store>>
    /\ UNCHANGED mainVars

Store ==
    /\ At(STORE)
    /\ channel_dir' = TRUE
    /\ snap' = transfer_db_files(live, snap)
    /\ live_at_store' = live
    /\ dispatched' = Append(dispatched, Entry("store", 0, TRUE))
    /\ pos' = NextCommand(pos)
    /\ UNCHANGED <<command_list, pc, customer_deposit, balance_remaining,
                   live, process>>
    /\ UNCHANGED mainVars

\* mutant of Restore: the ledger goes back to the deposit with the files
RestoreRewinds ==
    /\ At(RESTORE)
    /\ live' = transfer_db_files(snap, live)
    /\ dispatched' = Append(dispatched, Entry("restore", 0, TRUE))
    /\ pos' = NextCommand(pos)
    /\ balance_remaining' = customer_deposit
    /\ UNCHANGED <<command_list, pc, customer_deposit, channel_dir, snap,
                   process, live_at_store>>
    /\ UNCHANGED mainVars

Restore ==
    /\ At(RESTORE)
    /\ live' = transfer_db_files(snap, live)
    /\ dispatched' = Append(dispatched, Entry("restore", 0, TRUE))
    /\ pos' = NextCommand(pos)
    /\ UNCHANGED <<command_list, pc, customer_deposit, balance_remaining,
                   channel_dir, snap, process, live_at_store>>
    /\ UNCHANGED mainVars

\* expire: get_channel_id starts `customer list --json`
Expire ==
    /\ At(EXPIRE)
    /\ Spawn("list", 0)
    /\ UNCHANGED <<command_list, pos, customer_deposit, balance_remaining,
                   live, channel_dir, snap, live_at_store>>
    /\ UNCHANGED mainVars

\* mutant of ExpireFound: the merchant's close is started whatever the
\* listing holds
ExpireFoundUnresolved ==
    /\ pc = "wait"
    /\ process.op = "list"
    /\ process' = [op |-> "merchant close", amount |-> 0]
    /\ dispatched' = Append(Returned(0), Entry("merchant close", 0, FALSE))
    /\ UNCHANGED <<command_list, pos, pc, customer_deposit, balance_remaining,
                   live, channel_dir, snap, live_at_store>>
    /\ UNCHANGED mainVars

\* get_channel_id found the label in the listing: merchant close is started
ExpireFound ==
    /\ pc = "wait"
    /\ process.op = "list"
    /\ Listed(live)
    /\ process' = [op |-> "merchant close", amount |-> 0]
    /\ dispatched' = Append(Returned(0), Entry("merchant close", 0, FALSE))
    /\ UNCHANGED <<command_list, pos, pc, customer_deposit, balance_remaining,
                   live, channel_dir, snap, live_at_store>>
    /\ UNCHANGED mainVars

\* get_channel_id raises: the output is no JSON (the listing failed), or no
\* entry has the label and channel_id is unbound at the return
ExpireNotFound ==
    /\ pc = "wait"
    /\ process.op = "list"
    /\ \E rc \in {0, 1, Terminated} :
          /\ rc = 0 => ~Listed(live)
          /\ dispatched' = Returned(rc)
    /\ pc' = "crashed"
    /\ process' = NoProcess
    /\ UNCHANGED <<command_list, pos, customer_deposit, balance_remaining,
                   live, channel_dir, snap, live_at_store>>
    /\ exit_status' = 1
    /\ UNCHANGED <<args, chain, level, wait_secs, configs, cases_run, keyboard,
                   other_ops, reader, temp_path, racers>>

\* the merchant's close returns; its status is not looked at
MerchantExit ==
    /\ pc = "wait"
    /\ process.op = "merchant close"
    /\ \E rc \in {0, 1} : dispatched' = Returned(rc)
    /\ pc' = "loop"
    /\ pos' = NextCommand(pos)
    /\ process' = NoProcess
    /\ UNCHANGED <<command_list, customer_deposit, balance_remaining, live,
                   channel_dir, snap, live_at_store>>
    /\ UNCHANGED mainVars

CustomerOps == {"establish", "pay", "close", "close --force"}

\* a customer operation exits with status 0, its change committed
CustomerExitOk ==
    /\ pc = "wait"
    /\ process.op \in CustomerOps
    /\ \E c \in ClientCommit(process.op, process.amount, DbState(live)) :
          live' \in ClientWrites(live, c)
    /\ dispatched' = Returned(0)
    /\ pc' = "loop"
    /\ pos' = NextCommand(pos)
    /\ process' = NoProcess
    /\ UNCHANGED <<command_list, customer_deposit, balance_remaining,
                   channel_dir, snap, live_at_store>>
    /\ UNCHANGED mainVars

\* a customer operation exits with a non-zero status; the value
\* zkchannel_customer returns is dropped and the loop goes on
CustomerExitError ==
    /\ pc = "wait"
    /\ process.op \in CustomerOps
    /\ dispatched' = Returned(1)
    /\ pc' = "loop"
    /\ pos' = NextCommand(pos)
    /\ process' = NoProcess
    /\ UNCHANGED <<command_list, customer_deposit, balance_remaining, live,
                   channel_dir, snap, live_at_store>>
    /\ UNCHANGED mainVars

\* mutant of FatalExit: fatal_error leaves with status 0
FatalExitZero == ExitStatus(0)

\* fatal_error: sys.exit(-1)
FatalExit == ExitStatus(0 - 1)

\* KeyboardInterrupt while run_command reads the output of the process:
\* the except clause inside the loop terminates the process, the loop
\* goes on until poll() reports the exit and run_command returns as usual
Interrupt ==
    /\ pc = "wait"
    /\ process.op \in CustomerOps \cup {"merchant close"}
    /\ keyboard > 0
    /\ keyboard' = keyboard - 1
    /\ dispatched' = Returned(Terminated)
    /\ pc' = "loop"
    /\ pos' = NextCommand(pos)
    /\ process' = NoProcess
    /\ UNCHANGED <<command_list, customer_deposit, balance_remaining, live,
                   channel_dir, snap, live_at_store>>
    /\ UNCHANGED <<args, chain, level, wait_secs, configs, cases_run,
                   exit_status, other_ops, reader, temp_path, racers>>

\* an operation of the scenario of another label commits: it is run by
\* another process with the same configuration, so on the same database
OtherScenarioCommits ==
    /\ pc \in {"loop", "wait"}
    /\ other_ops # NoOther
    /\ other_ops < MaxOtherOps
    /\ other_ops' = other_ops + 1
    /\ live' \in ClientWrites(live, OtherCommit(DbState(live)))
    /\ UNCHANGED <<command_list, pos, pc, customer_deposit, balance_remaining,
                   channel_dir, snap, process, dispatched, live_at_store>>
    /\ UNCHANGED <<args, chain, level, wait_secs, configs, cases_run,
                   exit_status, keyboard, reader, temp_path, racers>>

\* else: fatal_error
Unrecognized ==
    /\ pc = "loop"
    /\ pos <= Len(command_list)
    /\ command_list[pos] \notin Commands
    /\ pc' = "fatal"
    /\ exit_status' = FatalExit
    /\ UNCHANGED <<command_list, pos, customer_deposit, balance_remaining,
                   live, channel_dir, snap, process, dispatched, live_at_store>>
    /\ UNCHANGED <<args, chain, level, wait_secs, configs, cases_run, keyboard,
                   other_ops, reader, temp_path, racers>>

\* the for loop is exhausted: run_command_list returns to main, which is
\* at its end (scenario) or in the loop over tests_to_run (test-all)
Finish ==
    /\ pc = "loop"
    /\ pos > Len(command_list)
    /\ pc' = IF args.command = TEST_ALL THEN "batch" ELSE "done"
    /\ UNCHANGED <<command_list, pos, customer_deposit, balance_remaining,
                   live, channel_dir, snap, process, dispatched, live_at_store>>
    /\ UNCHANGED mainVars

\* ------------------------------------------------------------------ main
scenarioVars == <<command_list, pos, customer_deposit, balance_remaining,
                  live, channel_dir, snap, process, dispatched, live_at_store>>

\* mutant of ArgsValid: the channel counter is not checked
ArgsValidAnyChannel ==
    /\ args.command \in COMMANDS
    /\ args.network \in {SANDBOX, TESTNET}

\* the three checks main makes before it does anything
ArgsValid ==
    /\ args.command \in COMMANDS
    /\ args.channel > 0
    /\ args.network \in {SANDBOX, TESTNET}

\* one of the checks fails: fatal_error
MainFatal ==
    /\ pc = "main"
    /\ ~ArgsValid
    /\ pc' = "fatal"
    /\ exit_status' = FatalExit
    /\ UNCHANGED scenarioVars
    /\ UNCHANGED <<args, chain, level, wait_secs, configs, cases_run, keyboard,
                   other_ops, reader, temp_path, racers>>

\* merch-setup, cust-setup: the configuration file is written and the
\* merchant server or the customer watcher is run
Setup ==
    /\ pc = "main"
    /\ ArgsValid
    /\ args.command \in {MERCH_SETUP, CUST_SETUP}
    /\ configs' = configs \cup {args.command}
    /\ process' = [op |-> IF args.command = MERCH_SETUP THEN "merchant run"
                          ELSE "watch", amount |-> 0]
    /\ pc' = "serve"
    /\ UNCHANGED <<command_list, pos, customer_deposit, balance_remaining,
                   live, channel_dir, snap, dispatched, live_at_store>>
    /\ UNCHANGED <<args, chain, level, wait_secs, cases_run, exit_status,
                   keyboard, other_ops, reader, temp_path, racers>>

\* list: the available channels are listed
ListChannels ==
    /\ pc = "main"
    /\ ArgsValid
    /\ args.command = LIST
    /\ process' = [op |-> "list", amount |-> 0]
    /\ pc' = "serve"
    /\ UNCHANGED <<command_list, pos, customer_deposit, balance_remaining,
                   live, channel_dir, snap, dispatched, live_at_store>>
    /\ UNCHANGED mainVars

\* the process of merch-setup, cust-setup or list exits; main is at its end
ServeExit ==
    /\ pc = "serve"
    /\ process' = NoProcess
    /\ pc' = "done"
    /\ UNCHANGED <<command_list, pos, customer_deposit, balance_remaining,
                   live, channel_dir, snap, dispatched, live_at_store>>
    /\ UNCHANGED mainVars

\* scenario constructs the TestScenario and runs the list, test-all enters
\* the loop over tests_to_run
RunStart == IF args.command = SCENARIO THEN "loop" ELSE "batch"

\* mutant of GateRead: the level read before is used again
GateReadStale(head, last) == IF last = NoLevel THEN head ELSE last

\* get_blockchain_level: the level of the head block
GateRead(head, last) == head

\* mutant of NeedsGate: the gate is run on no network
NeedsGateNever(network) == FALSE

\* if network == SANDBOX: check_blockchain_maturity(url)
NeedsGate(network) == network = SANDBOX

\* check_blockchain_maturity is entered: the first get_blockchain_level
GateEnter ==
    /\ pc = "main"
    /\ ArgsValid
    /\ args.command \in {SCENARIO, TEST_ALL}
    /\ NeedsGate(args.network)
    /\ level' = GateRead(chain, level)
    /\ pc' = "gate"
    /\ UNCHANGED scenarioVars
    /\ UNCHANGED <<args, chain, wait_secs, configs, cases_run, exit_status,
                   keyboard, other_ops, reader, temp_path, racers>>

\* on another network the gate is not run
GateSkip ==
    /\ pc = "main"
    /\ ArgsValid
    /\ args.command \in {SCENARIO, TEST_ALL}
    /\ ~NeedsGate(args.network)
    /\ pc' = RunStart
    /\ UNCHANGED scenarioVars
    /\ UNCHANGED mainVars

\* mutant of WaitSecs: one second for a block
WaitSecsPerBlock(h) == MIN_BLOCKCHAIN_LEVEL - h

\* blocks_short = MIN_BLOCKCHAIN_LEVEL - level; wait_secs = blocks_short*2
WaitSecs(h) == (MIN_BLOCKCHAIN_LEVEL - h) * 2

\* while level < MIN_BLOCKCHAIN_LEVEL: time.sleep(wait_secs), then
\* get_blockchain_level
GateWait ==
    /\ pc = "gate"
    /\ level < MIN_BLOCKCHAIN_LEVEL
    /\ wait_secs' = WaitSecs(level)
    /\ level' = GateRead(chain, level)
    /\ UNCHANGED scenarioVars
    /\ UNCHANGED <<pc, args, chain, configs, cases_run, exit_status, keyboard,
                   other_ops, reader, temp_path, racers>>

\* the loop condition fails: check_blockchain_maturity returns
GatePass ==
    /\ pc = "gate"
    /\ ~(level < MIN_BLOCKCHAIN_LEVEL)
    /\ pc' = RunStart
    /\ UNCHANGED scenarioVars
    /\ UNCHANGED mainVars

\* the chain bakes a block while the harness is in the gate
ChainGrows ==
    /\ pc = "gate"
    /\ chain < MaxLevel
    /\ chain' = chain + 1
    /\ UNCHANGED scenarioVars
    /\ UNCHANGED <<pc, args, level, wait_secs, configs, cases_run, exit_status,
                   keyboard, other_ops, reader, temp_path, racers>>

\* what the files say about a label no command has used yet
NewLabelView(files) == [f \in DOMAIN files |-> NoChannel]

\* mutant of CaseLabel: every case runs on the label main built from --channel
CaseLabelOfMain(i) == args.channel

\* channel_name = f"my-zkchannel-{i}" of enumerate(tests_to_run)
CaseLabel(i) == i

\* temp/<label> for the labels of the cases that have run: the directories
\* of earlier cases and the one the case that ends leaves behind
LeftDirs ==
    IF cases_run = <<>> THEN temp_path
    ELSE LET last == cases_run[Len(cases_run)].label
         IN  [l \in DOMAIN temp_path \cup {last} |->
                 IF l = last THEN [dir |-> channel_dir, files |-> snap]
                 ELSE temp_path[l]]

\* mutant of FreshLedger: the case goes on with the ledger of the case
\* before
CarriedLedger(deposit, remaining) == remaining

\* TestScenario.__init__: self.balance_remaining = float(customer_deposit)
FreshLedger(deposit, remaining) == deposit

\* for i, test in enumerate(tests_to_run): a TestScenario is constructed
\* for the label of the case and runs the list of the case
BatchNext ==
    /\ pc = "batch"
    /\ Len(cases_run) < Len(tests_to_run)
    /\ LET i == Len(cases_run)
           label == CaseLabel(i)
           dirs == LeftDirs
       IN  /\ cases_run' = Append(cases_run,
                              [label |-> label,
                               list |-> tests_to_run[i + 1]])
           /\ command_list' = tests_to_run[i + 1]
           /\ IF label \in DOMAIN dirs
              THEN /\ channel_dir' = dirs[label].dir
                   /\ snap' = dirs[label].files
                   /\ live' = live
              ELSE /\ channel_dir' = FALSE
                   /\ snap' = NoFiles
                   /\ live' = NewLabelView(live)
           /\ temp_path' = [l \in DOMAIN dirs \ {label} |-> dirs[l]]
    /\ pos' = 1
    /\ balance_remaining' = FreshLedger(customer_deposit, balance_remaining)
    /\ dispatched' = <<>>
    /\ live_at_store' = NoFiles
    /\ pc' = "loop"
    /\ UNCHANGED <<customer_deposit, process>>
    /\ UNCHANGED <<args, chain, level, wait_secs, configs, exit_status,
                   keyboard, other_ops, reader, racers>>

\* the loop over tests_to_run is exhausted: info("Done!")
BatchDone ==
    /\ pc = "batch"
    /\ ~(Len(cases_run) < Len(tests_to_run))
    /\ pc' = "done"
    /\ UNCHANGED scenarioVars
    /\ UNCHANGED mainVars

Next ==
    \/ MainFatal
    \/ Setup
    \/ ListChannels
    \/ ServeExit
    \/ GateEnter
    \/ GateSkip
    \/ GateWait
    \/ GatePass
    \/ ChainGrows
    \/ BatchNext
    \/ BatchDone
    \/ Establish
    \/ Pay
    \/ PayAll
    \/ Close
    \/ MutualClose
    \/ Store
    \/ Restore
    \/ Expire
    \/ ExpireFound
    \/ ExpireNotFound
    \/ MerchantExit
    \/ CustomerExitOk
    \/ CustomerExitError
    \/ Interrupt
    \/ OtherScenarioCommits
    \/ Unrecognized
    \/ Finish

\* every short list of payments, run with every deposit
LedgerLists == ListsUpTo({PAY, PAY_ALL}, MaxPayLen)

\* every short list of tokens
TokenLists == ListsUpTo(Tokens, MaxLen)

\* every short list of snapshot commands on an established channel
SnapshotLists ==
    {<<ESTABLISH>> \o l : l \in ListsUpTo({STORE, RESTORE, PAY}, MaxSnapLen)}

\* the lists of test-all and of the usage notes
ChannelLists == Range(tests_to_run) \cup {LifeCycleExample, DisputeExample}

\* lists that another scenario, of another label, runs along with
ConcurrentLists ==
    { <<STORE, RESTORE>>, <<ESTABLISH, STORE, PAY, RESTORE, CLOSE>> }

\* a deposit between one and two rounding units, and the largest one
SmallDeposit == 2 * (HalfUnit + 2)
ChannelDeposits == {SmallDeposit, 2 * MaxDeposit}

\* a chain that is at the minimum level, and one that is a block short
NearLevels == {MIN_BLOCKCHAIN_LEVEL - 1, MIN_BLOCKCHAIN_LEVEL}

\* a chain that has just started, and the levels around the minimum
FarLevels == {0} \cup NearLevels \cup {MaxLevel}

\* a subcommand and a network main does not know
BadCommand == "setup"
BadNetwork == "mainnet"

Inputs ==
    \/ /\ InitWith(LedgerLists, Deposits)
       /\ channel_dir = FALSE
       /\ DOMAIN live = {"db"}
       /\ InitMain({SCENARIO}, {TESTNET}, {1}, {MIN_BLOCKCHAIN_LEVEL}, {0},
                   {NoOther})
    \/ /\ InitWith(TokenLists, {SmallDeposit})
       /\ InitMain({SCENARIO}, {TESTNET}, {1}, {MIN_BLOCKCHAIN_LEVEL}, {0},
                   {NoOther})
    \/ /\ InitWith(SnapshotLists, {SmallDeposit})
       /\ channel_dir = FALSE
       /\ DOMAIN live = {"db"}
       /\ InitMain({SCENARIO}, {SANDBOX}, {1}, {MIN_BLOCKCHAIN_LEVEL}, {0},
                   {NoOther})
    \/ /\ InitWith(ChannelLists, ChannelDeposits)
       /\ InitMain({SCENARIO}, {SANDBOX}, {1}, {MIN_BLOCKCHAIN_LEVEL}, {0},
                   {NoOther})
    \/ /\ InitWith({LifeCycleExample, DisputeExample}, {SmallDeposit})
       /\ channel_dir = FALSE
       /\ InitMain({SCENARIO}, {SANDBOX}, {1}, {MIN_BLOCKCHAIN_LEVEL},
                   {MaxInterrupts}, {NoOther})
    \/ /\ InitWith({<<ESTABLISH>>}, {2 * MaxDeposit})
       /\ channel_dir = FALSE
       /\ DOMAIN live = {"db"}
       /\ InitMain({SCENARIO}, {SANDBOX}, {1}, FarLevels, {0}, {NoOther})
    \/ /\ InitWith({<<>>}, {SmallDeposit})
       /\ channel_dir = FALSE
       /\ DOMAIN live = {"db"}
       /\ InitMain({TEST_ALL}, {SANDBOX}, {1}, {MIN_BLOCKCHAIN_LEVEL}, {0},
                   {NoOther})
    \/ /\ InitWith({<<ESTABLISH>>}, {0})
       /\ InitMain((COMMANDS \ {TEST_ALL}) \cup {BadCommand},
                   {SANDBOX, TESTNET, BadNetwork}, {0, 1}, NearLevels, {0},
                   {NoOther})
    \/ /\ InitWith({<<ESTABLISH>>}, {0})
       /\ InitMain({TEST_ALL}, {SANDBOX, TESTNET, BadNetwork}, {0},
                   NearLevels, {0}, {NoOther})
    \/ /\ InitWith(ConcurrentLists, {SmallDeposit})
       /\ InitMain({SCENARIO}, {TESTNET}, {1}, {MIN_BLOCKCHAIN_LEVEL}, {0},
                   {0})

Init == Inputs /\ reader = NoRun /\ racers = NoRacers

Spec == Init /\ [][Next]_vars

\* while the harness is in the gate: the sleep ends and the node answers
\* the next request (GateWait), the loop is left once its condition fails
\* (GatePass), and the chain goes on baking blocks (ChainGrows)
GateFairness ==
    /\ WF_vars(GateWait)
    /\ WF_vars(GatePass)
    /\ WF_vars(ChainGrows)

SpecLive == Init /\ [][Next]_vars /\ GateFairness

\* ------------------------------------------- run_command, read by read
\* everything but the call of run_command that is looked at
callerVars == <<command_list, pos, pc, customer_deposit, balance_remaining,
                live, channel_dir, snap, process, dispatched, live_at_store,
                args, chain, level, wait_secs, configs, cases_run, exit_status,
                keyboard, other_ops, temp_path>>

\* what a spawned process writes, in order: lines on its standard output
\* and lines on its standard error; its k-th write is the line k
Programs == ListsUpTo({"out", "err"}, MaxWrites)

\* Popen: the process is started, output_text = "" (written 0 here)
InitRunCommand ==
    /\ Inputs
    /\ args.command = LIST
    /\ args.network = SANDBOX
    /\ args.channel = 1
    /\ chain = MIN_BLOCKCHAIN_LEVEL
    /\ racers = NoRacers
    /\ reader \in { [NoRun EXCEPT !.program = p, !.status = st,
                                  !.at = "stdout"] :
                        p \in Programs, st \in {0, 1} }

\* the pipe the process writes its next line into
NextPipe ==
    IF reader.program[reader.written + 1] = "out" THEN reader.stdout
    ELSE reader.stderr

\* the process writes its next line into one of its pipes; the write
\* blocks while that pipe is full
ProcessWrites ==
    /\ reader.at \in {"stdout", "stderr", "poll"}
    /\ ~reader.exited
    /\ reader.written < Len(reader.program)
    /\ Len(NextPipe) < MaxPipe
    /\ LET k == reader.written + 1
       IN  reader' =
             IF reader.program[k] = "out"
             THEN [reader EXCEPT !.written = k, !.stdout = Append(@, k)]
             ELSE [reader EXCEPT !.written = k, !.stderr = Append(@, k)]
    /\ UNCHANGED <<callerVars, racers>>

\* the process has written all it writes and exits; its pipes are closed
ProcessExits ==
    /\ reader.at \in {"stdout", "stderr", "poll"}
    /\ ~reader.exited
    /\ reader.written = Len(reader.program)
    /\ reader' = [reader EXCEPT !.exited = TRUE]
    /\ UNCHANGED <<callerVars, racers>>

\* output = process.stdout.readline(): one line when there is one, b'' at
\* the end of the file, and it blocks otherwise; a line read is kept in
\* output_text
ReadStdout ==
    /\ reader.at = "stdout"
    /\ reader.stdout # <<>> \/ reader.exited
    /\ reader' =
         IF reader.stdout # <<>>
         THEN [reader EXCEPT !.output_text = Head(reader.stdout),
                             !.stdout = Tail(@), !.at = "stderr"]
         ELSE [reader EXCEPT !.at = "stderr"]
    /\ UNCHANGED <<callerVars, racers>>

\* error = process.stderr.readline(): likewise, the line is printed
ReadStderr ==
    /\ reader.at = "stderr"
    /\ reader.stderr # <<>> \/ reader.exited
    /\ reader' =
         IF reader.stderr # <<>>
         THEN [reader EXCEPT !.stderr = Tail(@), !.at = "poll"]
         ELSE [reader EXCEPT !.at = "poll"]
    /\ UNCHANGED <<callerVars, racers>>

\* if process.poll() is not None: break; rc = process.poll(); return
Poll ==
    /\ reader.at = "poll"
    /\ reader' =
         IF reader.exited
         THEN [reader EXCEPT !.at = "returned", !.rc = reader.status]
         ELSE [reader EXCEPT !.at = "stdout"]
    /\ UNCHANGED <<callerVars, racers>>

NextRunCommand ==
    \/ ProcessWrites
    \/ ProcessExits
    \/ ReadStdout
    \/ ReadStderr
    \/ Poll

SpecRunCommand == InitRunCommand /\ [][NextRunCommand]_vars

\* the process and the reader go on whenever they are not blocked
RunCommandFairness ==
    /\ WF_vars(ProcessWrites)
    /\ WF_vars(ProcessExits)
    /\ WF_vars(ReadStdout)
    /\ WF_vars(ReadStderr)
    /\ WF_vars(Poll)

SpecRunCommandLive ==
    InitRunCommand /\ [][NextRunCommand]_vars /\ RunCommandFairness

\* ----------------------------------------------------------- properties
Entries == 1..Len(dispatched)

\* every process that has returned so far returned status 0
AllSucceeded == \A k \in Entries : dispatched[k].done => dispatched[k].rc = 0

\* the commands between positions a and b, both excluded
Between(a, b) == {command_list[k] : k \in (a + 1)..(b - 1)}

\* the list up to position p reads establish, ..., store, one or more pay
\* or pay_all, restore, close
DisputeShape(p) ==
    /\ p >= 5
    /\ command_list[1] = ESTABLISH
    /\ command_list[p] = CLOSE
    /\ command_list[p - 1] = RESTORE
    /\ \E st \in 2..(p - 3) :
          /\ command_list[st] = STORE
          /\ Between(st, p - 1) \subseteq {PAY, PAY_ALL}

RECURSIVE PaidIn(_)
PaidIn(n) ==
    IF n = 0 THEN 0
    ELSE PaidIn(n - 1)
            + (IF dispatched[n].op = "pay" THEN dispatched[n].amount ELSE 0)

\* the sum of the amounts of all payment invocations so far
Paid == PaidIn(Len(dispatched))

OpCount(op) == Cardinality({k \in Entries : dispatched[k].op = op})

\* no operation of a scenario of another label has touched the files
Alone == other_ops \in {NoOther, 0}

\* C1: in a list establish, ..., store, pay or pay_all (one or more),
\* restore, close whose operations all succeed, the close operation is
\* invoked on the channel state that was live when store ran.
C1_CloseOnStoredState ==
    (/\ pc = "wait"
     /\ process.op = "close --force"
     /\ DisputeShape(pos)
     /\ AllSucceeded
     /\ Alone)
        => DbState(live) = DbState(live_at_store)

\* C2: once the operation of a command has returned a non-zero status, no
\* later command is dispatched.
C2_AbortOnFirstFailure ==
    \A k \in Entries :
        (dispatched[k].done /\ dispatched[k].rc # 0) => k = Len(dispatched)

\* C3: commands are dispatched in list order, one at a time: only the
\* latest process can be running, each dispatch is the command at the next
\* position (the two processes of expire share one), none is skipped or
\* repeated, and the loop stands right behind the latest dispatch.
C3_InListOrder ==
    /\ \A k \in Entries :
          /\ dispatched[k].pos \in 1..Len(command_list)
          /\ dispatched[k].command = command_list[dispatched[k].pos]
          /\ k < Len(dispatched) => dispatched[k].done
          /\ k = 1 => dispatched[k].pos = 1
          /\ k > 1 =>
                \/ dispatched[k].pos = dispatched[k - 1].pos + 1
                \/ /\ dispatched[k].pos = dispatched[k - 1].pos
                   /\ dispatched[k - 1].op = "list"
                   /\ dispatched[k].op = "merchant close"
    /\ pc = "wait" =>
          /\ dispatched # <<>>
          /\ ~dispatched[Len(dispatched)].done
          /\ dispatched[Len(dispatched)].pos = pos
    /\ pc \in {"loop", "done"} =>
          /\ dispatched = <<>> => pos = 1
          /\ dispatched # <<>> =>
                /\ dispatched[Len(dispatched)].done
                /\ dispatched[Len(dispatched)].pos = pos - 1

\* three commands in: two processes have returned, the third is running
C3_Witness ==
    /\ pc = "wait"
    /\ Len(dispatched) >= 3
    /\ pos >= 3
    /\ \E k \in Entries : dispatched[k].done /\ dispatched[k].rc # 0

\* C4: the ledger is never negative.
C4_RemainingNonNegative == balance_remaining >= 0

\* a pay whose rounded amount took more than was left afterwards
C4_Witness ==
    /\ dispatched # <<>>
    /\ dispatched[Len(dispatched)].command = PAY
    /\ dispatched[Len(dispatched)].amount > balance_remaining
    /\ customer_deposit > Unit

\* C5: the amount a pay command passes to the payment operation is at most
\* half of the ledger value before that pay.
C5_PayAtMostHalf ==
    (pc = "wait" /\ process.op = "pay" /\ command_list[pos] = PAY)
        => 2 * process.amount <= balance_remaining + process.amount

\* C6: a pay command that finds the ledger positive leaves it positive.
C6_PayLeavesResidual ==
    [][(At(PAY) /\ balance_remaining > 0) => balance_remaining' > 0]_vars

\* a pay paid a positive amount out of less than two rounding units
C6_Witness ==
    /\ dispatched # <<>>
    /\ dispatched[Len(dispatched)].command = PAY
    /\ dispatched[Len(dispatched)].amount > 0
    /\ balance_remaining > 0
    /\ balance_remaining < Unit

\* C7: pay_all passes the whole ledger value to the payment operation and
\* leaves the ledger at 0; a pay_all right after a pay_all pays 0.
C7_PayAll ==
    [][At(PAY_ALL) =>
          /\ process'.op = "pay"
          /\ process'.amount = balance_remaining
          /\ balance_remaining' = 0
          /\ (pos > 1 /\ command_list[pos - 1] = PAY_ALL) => process'.amount = 0
      ]_vars

\* the second of two pay_all commands in a row is paying 0 of a deposit
C7_Witness ==
    /\ pc = "wait"
    /\ pos > 1
    /\ command_list[pos] = PAY_ALL
    /\ command_list[pos - 1] = PAY_ALL
    /\ customer_deposit > 0
    /\ process.amount = 0
    /\ dispatched[Len(dispatched) - 1].amount = customer_deposit

C9_StoreThenRestore ==
    (/\ pc = "loop"
     /\ Len(dispatched) >= 2
     /\ dispatched[Len(dispatched)].command = RESTORE
     /\ dispatched[Len(dispatched) - 1].command = STORE
     /\ Alone)
        => /\ live = live_at_store
           /\ DbState(live) = DbState(live_at_store)

\* C10: right after a store the snapshot is the live file set, nothing
\* else, and the archive directory exists.
C10_LastStoreWins ==
    (/\ pc = "loop"
     /\ dispatched # <<>>
     /\ dispatched[Len(dispatched)].command = STORE
     /\ Alone)
        => /\ channel_dir
           /\ snap = live

\* the commands dispatched so far have command c among them
Ran(c) == \E k \in Entries : dispatched[k].command = c

\* the run has ended in an error: a traceback or fatal_error
Failed == pc \in {"fatal", "crashed"} /\ exit_status # 0

\* C11: once a restore has run for a label that has no snapshot (no store
\* ran, the archive holds no file), the run has ended in an error; it is
\* not at the next command with nothing reported.
C11_RestoreWithoutStore ==
    (/\ Ran(RESTORE)
     /\ ~Ran(STORE)
     /\ snap = NoFiles)
        => /\ Failed
           /\ dispatched[Len(dispatched)].command = RESTORE

\* the for loop is at a token that is none of the eight commands
AtUnrecognized ==
    /\ pc = "loop"
    /\ pos <= Len(command_list)
    /\ command_list[pos] \notin Commands

\* C12: at a token that is none of the eight commands the process ends
\* with a non-zero exit status, and nothing is dispatched afterwards: no
\* command of the list, no case of a batch.
C12_UnrecognizedIsFatal ==
    /\ [](pc = "fatal" => exit_status # 0)
    /\ [][AtUnrecognized => /\ pc' = "fatal"
                            /\ dispatched' = dispatched
                            /\ cases_run' = cases_run]_vars
    /\ [][pc # "fatal"]_vars

\* a list has run up to an unrecognized token behind an establish
C12_Witness ==
    /\ pc = "fatal"
    /\ ArgsValid
    /\ Len(dispatched) = 1
    /\ pos = 2
    /\ command_list[pos] = UNKNOWN

\* C13: when the process has ended at an unrecognized token of the list,
\* no operation was invoked, no snapshot file copied and the ledger not
\* changed for the commands before the token.
C13_NoPartialExecution ==
    (/\ pc = "fatal"
     /\ ArgsValid)
        => /\ dispatched = <<>>
           /\ balance_remaining = customer_deposit

\* the command line has an unknown subcommand, a channel counter that is
\* not positive, or an unknown network
ArgsRejected ==
    \/ args.command \notin {LIST, MERCH_SETUP, CUST_SETUP, SCENARIO, TEST_ALL}
    \/ args.channel <= 0
    \/ args.network \notin {SANDBOX, TESTNET}

\* C14: with an unknown subcommand, a channel counter <= 0 or an invalid
\* network, the process goes from its start to a fatal end with a non-zero
\* exit status only: the gate is not polled, no configuration file is
\* written and no operation is invoked.
C14_InvalidArgsFatal ==
    ArgsRejected
        => /\ pc \in {"main", "fatal"}
           /\ pc = "fatal" => exit_status # 0
           /\ level = NoLevel
           /\ configs = {}
           /\ process = NoProcess
           /\ dispatched = <<>>
           /\ cases_run = <<>>

\* cust-setup on the sandbox with channel counter 0 has ended
C14_Witness ==
    /\ pc = "fatal"
    /\ args.command = CUST_SETUP
    /\ args.network = SANDBOX
    /\ args.channel = 0

\* the four payment variants with close command m at the end
PaymentVariants(m) ==
    { <<ESTABLISH, m>>, <<ESTABLISH, PAY, m>>, <<ESTABLISH, PAY, PAY, m>>,
      <<ESTABLISH, PAY_ALL, m>> }

\* C15: test-all has 16 lists, pairwise distinct: the four payment
\* variants for each of mutual_close, close, expire, and four dispute
\* lists; case k runs list k, no two cases run on the same label, and a
\* batch that comes to its end has run 16 cases.
C15_SixteenDistinctCases ==
    /\ Len(tests_to_run) = 16
    /\ \A i, j \in DOMAIN tests_to_run :
          tests_to_run[i] = tests_to_run[j] => i = j
    /\ \A m \in {MUTUAL_CLOSE, CLOSE, EXPIRE} :
          PaymentVariants(m) \subseteq Range(tests_to_run)
    /\ Cardinality({i \in DOMAIN tests_to_run :
                        {STORE, RESTORE} \subseteq Range(tests_to_run[i])}) = 4
    /\ \A k \in DOMAIN cases_run : cases_run[k].list = tests_to_run[k]
    /\ \A j, k \in DOMAIN cases_run :
          cases_run[j].label = cases_run[k].label => j = k
    /\ (args.command = TEST_ALL /\ pc = "done") => Len(cases_run) = 16

\* a batch has come to its end
C15_Witness ==
    /\ args.command = TEST_ALL
    /\ pc = "done"
    /\ Len(cases_run) = 16

\* C16: a batch that has ended, however it ended, has run all its cases.
C16_BatchRunsEveryCase ==
    (/\ args.command = TEST_ALL
     /\ pc \in {"done", "crashed", "fatal"}
     /\ ArgsValid)
        => Len(cases_run) = Len(tests_to_run)

\* C17: check_blockchain_maturity returns: from whatever level the chain
\* has when the gate is entered, a chain that goes on growing gets the
\* harness out of the gate.
C17_GateTerminates == (pc = "gate") ~> (pc # "gate")

\* the gate has returned after a sleep for MIN_BLOCKCHAIN_LEVEL blocks
C17_Witness ==
    /\ wait_secs = 2 * MIN_BLOCKCHAIN_LEVEL
    /\ pc = "loop"
    /\ level >= MIN_BLOCKCHAIN_LEVEL

\* main runs a command list: a single scenario or the batch
RunsLists == ArgsValid /\ args.command \in {SCENARIO, TEST_ALL}

\* the run is at its first command or further
PastGate == pc \in {"loop", "wait", "batch", "done", "crashed"}

\* C18 as claimed, for every accepted network: when an operation has been
\* invoked in a run of a scenario or a batch, a poll of the gate has
\* observed a level of at least 60.
C18_ReadyBeforeOps ==
    (/\ RunsLists
     /\ process # NoProcess)
        => level >= MIN_BLOCKCHAIN_LEVEL

\* C18 as amended, for the sandbox: the gate is entered once, from the
\* start of main, and a run that is at its first command or further, or
\* has an operation running, has polled a level of at least 60; on the
\* other network no level is polled at all.
C18_ReadyBeforeOpsOnSandbox ==
    /\ []((/\ RunsLists
           /\ args.network = SANDBOX
           /\ (PastGate \/ process # NoProcess))
              => level >= MIN_BLOCKCHAIN_LEVEL)
    /\ [](args.network # SANDBOX => level = NoLevel)
    /\ [][(pc' = "gate" /\ pc # "gate")
              => (pc = "main" /\ level = NoLevel)]_vars

\* establish is running on the sandbox after a gate that had to wait
C18_Witness ==
    /\ args.network = SANDBOX
    /\ wait_secs > 0
    /\ pc = "wait"
    /\ process.op = "establish"

\* the listing of an expire is running and the label is not in it
LookupMisses ==
    /\ pc = "wait"
    /\ process.op = "list"
    /\ ~Listed(live)

\* C19: when the listing of an expire does not hold the label, the run
\* ends there with a non-zero exit status: the merchant's close runs only
\* behind a listing that returned and held the label, a command gets one
\* listing at most, and nothing follows the end.
C19_ExpireLookupFatal ==
    /\ []((pc = "wait" /\ process.op = "merchant close") => Listed(live))
    /\ [](\A k \in Entries :
            dispatched[k].op = "merchant close"
                => /\ k > 1
                   /\ dispatched[k - 1].op = "list"
                   /\ dispatched[k - 1].pos = dispatched[k].pos
                   /\ dispatched[k - 1].rc = 0)
    /\ [](\A j, k \in Entries :
            (/\ dispatched[j].op = "list"
             /\ dispatched[k].op = "list"
             /\ dispatched[j].pos = dispatched[k].pos) => j = k)
    /\ [][LookupMisses => /\ pc' = "crashed"
                          /\ exit_status' # 0
                          /\ process' = NoProcess
                          /\ Len(dispatched') = Len(dispatched)]_vars
    /\ [][pc # "crashed"]_vars

\* an expire on a label that was never established has ended the run with
\* a command of the list still to come
C19_Witness ==
    /\ pc = "crashed"
    /\ command_list[pos] = EXPIRE
    /\ pos < Len(command_list)
    /\ dispatched[Len(dispatched)].op = "list"
    /\ dispatched[Len(dispatched)].rc = 0
    /\ ~Listed(live)

\* C20: the operation that an interrupt from the keyboard ended is the
\* last one of the run: no command is dispatched after it.
C20_InterruptAborts ==
    \A k \in Entries :
        (/\ dispatched[k].done
         /\ dispatched[k].rc = Terminated) => k = Len(dispatched)

\* C21: a scenario of another label running at the same time sees its
\* channel changed by its own operations only: no step of this scenario
\* changes what the database says about the channels of other labels.
C21_NoInterference ==
    [][other_ops' = other_ops
          => DbState(live').others = DbState(live).others]_vars

\* the last line the process of the call writes on its standard output
\* (0: it writes none)
RECURSIVE LastOut(_)
LastOut(n) ==
    IF n = 0 THEN 0
    ELSE IF reader.program[n] = "out" THEN n ELSE LastOut(n - 1)

\* C22: when run_command returns, every line the process wrote on its
\* standard output has been read, the text returned is the last of them,
\* and the status returned is the exit status of the process.
C22_LastLineReturned ==
    reader.at = "returned"
        => /\ reader.stdout = <<>>
           /\ reader.output_text = LastOut(Len(reader.program))
           /\ reader.rc = reader.status

\* the least n with eps * 2^n >= d, eps the rounding unit: ceil(log2(d/eps))
RECURSIVE CeilLog2From(_, _)
CeilLog2From(d, reach) ==
    IF reach >= d THEN 0 ELSE 1 + CeilLog2From(d, 2 * reach)

CeilLog2(d) == CeilLog2From(d, Unit)

\* every command run so far is a pay
OnlyPays == \A k \in Entries : dispatched[k].command = PAY

\* C23: with a deposit D > 0 and pay commands only, remaining cannot be 0
\* while fewer than ceil(log2(D / eps)) payments have been made, whatever
\* the draws.
C23_HalfCap ==
    (/\ customer_deposit > 0
     /\ OnlyPays
     /\ Len(dispatched) < CeilLog2(customer_deposit))
        => balance_remaining > 0

\* the largest deposit, after as many payments as the claim counts, every
\* one taking all that the draw and the rounding allow
C23_Witness ==
    /\ customer_deposit = 2 * MaxDeposit
    /\ OnlyPays
    /\ CeilLog2(customer_deposit) >= 2
    /\ Len(dispatched) = CeilLog2(customer_deposit)
    /\ \A k \in Entries : dispatched[k].done /\ dispatched[k].amount > 0
    /\ balance_remaining > 0
    /\ balance_remaining <= Unit

\* a payment operation is running
PayInFlight == pc = "wait" /\ process.op = "pay"

\* C24: while the payment operation of a pay or pay_all is running,
\* remaining still has the value it had before the command: the deposit
\* less the amounts of the payments invoked before this one.
C24_DecrementAfterInvoke ==
    PayInFlight
        => balance_remaining
              = customer_deposit - PaidIn(Len(dispatched) - 1)

\* the command that ran last is c, and the loop is behind it
JustRan(c) ==
    /\ pc = "loop"
    /\ dispatched # <<>>
    /\ dispatched[Len(dispatched)].command = c

\* C25: right after a restore for which a snapshot exists, the live files
\* are the files of the snapshot, in names and in contents.
C25_RestoreOverwrites ==
    (/\ JustRan(RESTORE)
     /\ Alone
     /\ snap # NoFiles)
        => live = snap

\* the operation the adapter is to run for a close command
CloseOp(c) == IF c = CLOSE THEN "close --force" ELSE "close"

\* the engine's own state: the ledger, the snapshot, the list
EngineState == <<command_list, customer_deposit, balance_remaining,
                 channel_dir, snap, live_at_store>>

\* C26: at a close or a mutual_close, whatever remaining is, the step the
\* harness takes starts one customer operation, close with the force flag
\* for close and without it for mutual_close, and changes nothing else;
\* when the operation returns the loop is at the next command with the
\* ledger and the snapshot as they were; no command gets a second
\* operation.
C26_CloseVariants ==
    /\ [][((At(CLOSE) \/ At(MUTUAL_CLOSE)) /\ other_ops' = other_ops)
             => /\ pc' = "wait"
                /\ process' = [op |-> CloseOp(command_list[pos]),
                                amount |-> 0, label |-> channel_name]
                /\ pos' = pos
                /\ Len(dispatched') = Len(dispatched) + 1
                /\ EngineState' = EngineState]_vars
    /\ [][(/\ pc = "wait"
           /\ process.op \in {"close", "close --force"}
           /\ other_ops' = other_ops)
             => /\ pc' = "loop"
                /\ pos' = pos + 1
                /\ Len(dispatched') = Len(dispatched)
                /\ EngineState' = EngineState]_vars
    /\ [](\A j, k \in Entries :
            (/\ dispatched[j].command \in {CLOSE, MUTUAL_CLOSE}
             /\ dispatched[j].pos = dispatched[k].pos) => j = k)

\* a close with the force flag is running on a ledger that pay_all emptied
C26_Witness ==
    /\ pc = "wait"
    /\ process.op = "close --force"
    /\ customer_deposit > 0
    /\ balance_remaining = 0

\* a step of the harness in the gate, not of the chain
GateStep == pc = "gate" /\ chain' = chain

\* C27: in the gate, after a poll that read h < 60 the harness sleeps
\* (60 - h) * 2 seconds, a positive time computed from that read, and
\* polls the head once; after a poll that read h >= 60 it leaves the gate
\* without a sleep or a poll.
C27_GatePolling ==
    /\ [][(GateStep /\ level < 60)
             => /\ pc' = "gate"
                /\ wait_secs' = (60 - level) * 2
                /\ wait_secs' > 0
                /\ level' = chain]_vars
    /\ [][(GateStep /\ level >= 60)
             => /\ pc' # "gate"
                /\ wait_secs' = wait_secs
                /\ level' = level]_vars
    /\ [](pc = "gate" => level # NoLevel)

\* the gate has slept 4 seconds for a read two blocks short and then read
\* a level that is enough
C27_Witness ==
    /\ pc = "gate"
    /\ wait_secs = 4
    /\ level >= MIN_BLOCKCHAIN_LEVEL

\* the label of the batch case that is running
CurrentCase == cases_run[Len(cases_run)].label

\* C28: a batch case starts with remaining at the full deposit and nothing
\* dispatched, whatever the cases before it paid; the snapshot directory
\* of the running case is none of the directories the earlier cases left,
\* one per earlier case, and no step, a store included, changes a directory
\* an earlier case left.
C28_CasesIsolated ==
    /\ [][(pc = "batch" /\ pc' = "loop")
             => /\ balance_remaining' = customer_deposit
                /\ dispatched' = <<>>]_vars
    /\ [](cases_run # <<>>
            => /\ CurrentCase \notin DOMAIN temp_path
               /\ Cardinality(DOMAIN temp_path) = Len(cases_run) - 1)
    /\ [][\A l \in DOMAIN temp_path :
             l \in DOMAIN temp_path' /\ temp_path'[l] = temp_path[l]]_vars

\* the fourteenth case has just stored its files after a payment, while the
\* directory of the thirteenth case holds what that case stored before its
\* payment
C28_Witness ==
    /\ Len(cases_run) = 14
    /\ JustRan(STORE)
    /\ balance_remaining < customer_deposit
    /\ CaseLabel(12) \in DOMAIN temp_path
    /\ temp_path[CaseLabel(12)].files # NoFiles
    /\ snap # NoFiles
    /\ snap # temp_path[CaseLabel(12)].files

\* C29: an establish command, wherever it stands in the list and whatever
\* remaining is, starts the establish operation of the client with the
\* full deposit of the channel and the label of the scenario, and neither
\* that step nor the return of the operation changes remaining.
C29_EstablishFullDeposit ==
    /\ [][(At(ESTABLISH) /\ other_ops' = other_ops)
             => /\ process' = [op |-> "establish",
                               amount |-> customer_deposit,
                               label |-> channel_name]
                /\ balance_remaining' = balance_remaining]_vars
    /\ [][(pc = "wait" /\ process.op = "establish")
             => balance_remaining' = balance_remaining]_vars
    /\ [](\A k \in Entries :
            dispatched[k].command = ESTABLISH
                => /\ dispatched[k].op = "establish"
                   /\ dispatched[k].amount = customer_deposit)

\* an establish that stands after a payment is running with the full
\* deposit while remaining is less than the deposit
C29_Witness ==
    /\ pc = "wait"
    /\ pos > 1
    /\ process.op = "establish"
    /\ process.amount = customer_deposit
    /\ balance_remaining < customer_deposit

\* the list starts with establish and that command is over
EstablishedFirst ==
    /\ command_list # <<>>
    /\ command_list[1] = ESTABLISH
    /\ pos > 1

\* C30: once the establish that starts the list is over, remaining is at
\* most the customer balance of the live channel state, and a payment
\* that is running asks for at most that balance.
C30_LedgerWithinChannel ==
    EstablishedFirst
        => /\ balance_remaining <= DbState(live).bal
           /\ PayInFlight => process.amount <= DbState(live).bal

\* the for loop is at, or in the operation of, a command that is not a
\* payment
AtOtherCommand ==
    /\ pc \in {"loop", "wait"}
    /\ pos <= Len(command_list)
    /\ command_list[pos] \notin {PAY, PAY_ALL}

\* C31: no step taken for establish, close, mutual_close, expire, store or
\* restore changes remaining; within a scenario remaining changes only in
\* the step that dispatches a pay or a pay_all.
C31_OnlyPaysChangeLedger ==
    /\ [][AtOtherCommand => balance_remaining' = balance_remaining]_vars
    /\ [][(pc # "batch" /\ balance_remaining' # balance_remaining)
             => (At(PAY) \/ At(PAY_ALL))]_vars

\* a restore has just copied back the files stored before a payment, and
\* remaining is still what the payment left
C31_Witness ==
    /\ JustRan(RESTORE)
    /\ Ran(STORE)
    /\ snap # NoFiles
    /\ DbState(live_at_store).bal = customer_deposit
    /\ balance_remaining < customer_deposit

C33_PayOnEmptyLedger ==
    [][(At(PAY) /\ balance_remaining = 0 /\ other_ops' = other_ops)
          => /\ pc' = "wait"
             /\ process' = [op |-> "pay", amount |-> 0,
                            label |-> channel_name]
             /\ Len(dispatched') = Len(dispatched) + 1
             /\ balance_remaining' = 0]_vars

\* a pay that stands after a pay_all on a funded ledger is running with
\* amount 0
C33_Witness ==
    /\ pc = "wait"
    /\ command_list[pos] = PAY
    /\ process.op = "pay"
    /\ process.amount = 0
    /\ customer_deposit > 0
    /\ Ran(PAY_ALL)
    /\ balance_remaining = 0

\* C34: the step of a store leaves every live file as it is and removes
\* no file of the snapshot; the step of a restore leaves every file of the
\* snapshot as it is and removes no live file.
C34_OneDirectionalCopies ==
    /\ [][(At(STORE) /\ other_ops' = other_ops)
             => /\ live' = live
                /\ DOMAIN snap \subseteq DOMAIN snap']_vars
    /\ [][(At(RESTORE) /\ other_ops' = other_ops)
             => /\ snap' = snap
                /\ DOMAIN live \subseteq DOMAIN live']_vars

\* a restore has just copied a snapshot of the primary file alone over a
\* live store that has companions: the companions are still there
C34_Witness ==
    /\ JustRan(RESTORE)
    /\ Alone
    /\ Ran(STORE)
    /\ DOMAIN snap = {"db"}
    /\ DOMAIN live # {"db"}
    /\ live["db"] = snap["db"]

CloseTypes == {CLOSE, MUTUAL_CLOSE, EXPIRE}

\* the positions of list l that hold a command of the set cs
Positions(l, cs) == {k \in 1..Len(l) : l[k] \in cs}

\* the list starts with establish and its one close-type command is last
ClosesOnce(l) ==
    /\ l # <<>>
    /\ l[1] = ESTABLISH
    /\ Positions(l, CloseTypes) = {Len(l)}

\* every restore of the list has exactly one store before it, and a pay
\* or a pay_all between the two
RestoresAfterStore(l) ==
    \A r \in Positions(l, {RESTORE}) :
        LET stores == {s \in Positions(l, {STORE}) : s < r}
        IN  /\ Cardinality(stores) = 1
            /\ \A s \in stores :
                  \E p \in Positions(l, {PAY, PAY_ALL}) : s < p /\ p < r

\* the sixteen lists of the batch are well formed
WellFormedLists ==
    /\ Len(tests_to_run) = 16
    /\ \A i \in 1..Len(tests_to_run) :
          ClosesOnce(tests_to_run[i]) /\ RestoresAfterStore(tests_to_run[i])

\* C35: the sixteen lists of the batch are well formed, and so, when a
\* case of the batch is at a restore, there is a snapshot and the state it
\* holds is older than the live one.
C35_BatchListsWellFormed ==
    /\ WellFormedLists
    /\ (cases_run # <<>> /\ At(RESTORE))
          => /\ snap # NoFiles
             /\ DbState(snap).rev < DbState(live).rev

\* C36: whatever the process writes on its two pipes before it exits,
\* the call of run_command returns in the end.
C36_RunCommandReturns == <>(reader.at = "returned")

\* ------------------------- scenario processes that start at the same time
\* everything but the processes that are looked at step by step
aloneVars == <<callerVars, reader>>

Scenarios == 1..MaxScenarios

\* the processes are started on the same configuration path, each for a
\* label; temp/ and the directories of some labels may be there already
InitStart ==
    /\ Inputs
    /\ args.command = SCENARIO
    /\ args.network = TESTNET
    /\ command_list = <<STORE, RESTORE>>
    /\ other_ops = NoOther
    /\ reader = NoRun
    /\ racers \in
         { [root |-> r, dirs |-> d,
            procs |-> [q \in Scenarios |-> [label |-> l[q], at |-> "init"]]] :
              r \in BOOLEAN, d \in SUBSET Scenarios,
              l \in [Scenarios -> Scenarios] }
    /\ racers.dirs # {} => racers.root

\* the process q is at the step named at
RacerAt(q, at) == q \in DOMAIN racers.procs /\ racers.procs[q].at = at

\* the process q goes on at the step named at
RacerTo(q, at) == [racers.procs EXCEPT ![q].at = at]

\* __init__: if not os.path.isdir(self.temp_path)
InitCheck(q) ==
    /\ RacerAt(q, "init")
    /\ racers' = [racers EXCEPT !.procs =
                     RacerTo(q, IF racers.root THEN "run" ELSE "init_mkdir")]
    /\ UNCHANGED aloneVars

\* __init__: os.mkdir(self.temp_path), FileExistsError when the directory
\* was made since the check
InitMkdir(q) ==
    /\ RacerAt(q, "init_mkdir")
    /\ racers' = IF racers.root
                 THEN [racers EXCEPT !.procs = RacerTo(q, "failed")]
                 ELSE [racers EXCEPT !.root = TRUE,
                                     !.procs = RacerTo(q, "run")]
    /\ UNCHANGED aloneVars

\* store: if not os.path.isdir(self.channel_path)
StoreCheck(q) ==
    /\ RacerAt(q, "run")
    /\ racers' = [racers EXCEPT !.procs =
                     RacerTo(q, IF racers.procs[q].label \in racers.dirs
                                THEN "copy" ELSE "store_mkdir")]
    /\ UNCHANGED aloneVars

\* store: os.mkdir(self.channel_path), FileExistsError when the directory
\* was made since the check
StoreMkdir(q) ==
    /\ RacerAt(q, "store_mkdir")
    /\ racers' = IF racers.procs[q].label \in racers.dirs
                 THEN [racers EXCEPT !.procs = RacerTo(q, "failed")]
                 ELSE [racers EXCEPT !.dirs = @ \cup {racers.procs[q].label},
                                     !.procs = RacerTo(q, "copy")]
    /\ UNCHANGED aloneVars

NextStart ==
    \/ \E q \in Scenarios : InitCheck(q)
    \/ \E q \in Scenarios : InitMkdir(q)
    \/ \E q \in Scenarios : StoreCheck(q)
    \/ \E q \in Scenarios : StoreMkdir(q)

SpecStart == InitStart /\ [][NextStart]_vars

\* C37: no scenario process fails in the creation of temp/ or of the
\* directory of its label, whatever the other processes do meanwhile.
C37_MkdirSafe ==
    \A q \in DOMAIN racers.procs : racers.procs[q].at # "failed"

=============================================================================
